---- MODULE Spec2Model ----
(***************************************************************************)
(* Model of the job tracker CLI (src/index.ts).  One invocation of the     *)
(* program (main) is one step: it loads jobs.json, runs one command and,   *)
(* for a mutating command, rewrites jobs.json.                             *)
(*                                                                         *)
(* A JavaScript string is a sequence of one-character strings, so that     *)
(* trim, join, === and template literals are computed on characters.       *)
(***************************************************************************)
EXTENDS Integers, Sequences, FiniteSets, TLC

\* ------------------------------------------------------------------ bounds
\* The collection holds at most MaxJobs entries (add is not run beyond it).
MaxJobs == 2
\* Date.now() ranges over 1..MaxClock milliseconds.
MaxClock == 2

\* ------------------------------------------------------- JavaScript values
\* The value undefined: a one-element sequence whose element is not a single
\* character, so it differs from every string.
Undefined == <<"undefined">>

EmptyStr == <<>>
Blank == <<" ">>

\* The command words.
CmdAdd == <<"a", "d", "d">>
CmdList == <<"l", "i", "s", "t">>
CmdUpdate == <<"u", "p", "d", "a", "t", "e">>
CmdRemove == <<"r", "e", "m", "o", "v", "e">>
CmdHelp == <<"h", "e", "l", "p">>

\* The five status words.
Saved == <<"s", "a", "v", "e", "d">>
Applied == <<"a", "p", "p", "l", "i", "e", "d">>
Interview == <<"i", "n", "t", "e", "r", "v", "i", "e", "w">>
Offer == <<"o", "f", "f", "e", "r">>
Rejected == <<"r", "e", "j", "e", "c", "t", "e", "d">>

\* !value for a string or undefined: undefined and "" are falsy.
Falsy(value) == value = Undefined \/ value = EmptyStr

\* args[i] with JavaScript's 0-based index: undefined past the end.
At(args, i) == IF i + 1 \in DOMAIN args THEN args[i + 1] ELSE Undefined

\* args.slice(from)
Slice(args, from) == SubSeq(args, from + 1, Len(args))

\* String.prototype.trim: strips the white space at both ends.
RECURSIVE TrimLeft(_)
TrimLeft(s) == IF s # <<>> /\ Head(s) = " " THEN TrimLeft(Tail(s)) ELSE s

RECURSIVE TrimRight(_)
TrimRight(s) ==
    IF s # <<>> /\ s[Len(s)] = " " THEN TrimRight(SubSeq(s, 1, Len(s) - 1)) ELSE s

Trim(s) == TrimRight(TrimLeft(s))

\* Array.prototype.join(" ")
RECURSIVE Join(_)
Join(parts) ==
    IF parts = <<>> THEN EmptyStr
    ELSE IF Len(parts) = 1 THEN parts[1]
    ELSE parts[1] \o <<" ">> \o Join(Tail(parts))

\* The decimal digits of a natural number (String(n) in a template literal).
DigitChars == <<"0", "1", "2", "3", "4", "5", "6", "7", "8", "9">>

RECURSIVE Digits(_)
Digits(n) ==
    IF n < 10 THEN <<DigitChars[n + 1]>>
    ELSE Digits(n \div 10) \o <<DigitChars[(n % 10) + 1]>>

HexChars ==
    <<"0", "1", "2", "3", "4", "5", "6", "7", "8", "9", "a", "b", "c", "d", "e", "f">>

\* (k/16).toString(16): "0" for 0, "0.<hex digit>" otherwise.
ToString16(k) == IF k = 0 THEN <<"0">> ELSE <<"0", ".", HexChars[k + 1]>>

\* Math.random().toString(16).slice(2), for Math.random() = k/16.
RandomHex(k) == Slice(ToString16(k), 2)

\* makeId: `${Date.now()}-${Math.random().toString(16).slice(2)}`
makeId(t, k) == Digits(t) \o <<"-">> \o RandomHex(k)

\* Date.prototype.toISOString for an instant t < 1000 ms after the epoch.
IsoPrefix ==
    <<"1", "9", "7", "0", "-", "0", "1", "-", "0", "1", "T",
      "0", "0", ":", "0", "0", ":", "0", "0", ".">>

Pad3(t) ==
    IF t < 10 THEN <<"0", "0">> \o Digits(t)
    ELSE IF t < 100 THEN <<"0">> \o Digits(t)
    ELSE Digits(t)

toISOString(t) == IsoPrefix \o Pad3(t) \o <<"Z">>

\* new Date(createdAt).toLocaleString(): rendered to the second, so the
\* milliseconds of createdAt are dropped; "Invalid Date" if it does not parse.
toLocaleString(createdAt) ==
    IF Len(createdAt) = Len(IsoPrefix) + 4
       /\ SubSeq(createdAt, 1, Len(IsoPrefix)) = IsoPrefix
    THEN SubSeq(createdAt, 1, 10) \o <<" ">> \o SubSeq(createdAt, 12, 19)
    ELSE <<"I", "n", "v", "a", "l", "i", "d">>

\* isStatus: membership in the literal list of the five statuses.
Statuses == {Saved, Applied, Interview, Offer, Rejected}

\* Mutant of isStatus: the first letter is compared without regard to case.
isStatusAnyCase(value) ==
    /\ value # <<>>
    /\ (<<IF value[1] = "S" THEN "s" ELSE value[1]>> \o Tail(value)) \in Statuses

isStatus(value) == value \in Statuses

\* --------------------------------------------------------------- the store
\* jobs.json: absent, or a text.  A text is modelled by what JSON.parse makes
\* of it: an array, a string, an object, or nothing (a SyntaxError).
FileAbsent == [kind |-> "absent", items |-> <<>>]
FileGarbage == [kind |-> "garbage", items |-> <<>>]
FileEmptyString == [kind |-> "string", items |-> <<>>]
FileObject == [kind |-> "object", items |-> <<>>]

\* A JobApplication as it stands in the file: notes is present or not.
HasNotes(j) == "notes" \in DOMAIN j

\* j.notes: undefined when the object has no such key.
NotesOf(j) == IF HasNotes(j) THEN j.notes ELSE Undefined

\* JSON.stringify of one object: a key whose value is undefined is left out.
StringifyJob(j) ==
    IF NotesOf(j) = Undefined
    THEN [id |-> j.id, company |-> j.company, role |-> j.role,
          status |-> j.status, createdAt |-> j.createdAt]
    ELSE j

\* saveJobs: writeFileSync(DATA_FILE, JSON.stringify(jobs, null, 2)).
saveJobs(jobs) ==
    [kind |-> "array", items |-> [i \in DOMAIN jobs |-> StringifyJob(jobs[i])]]

\* loadJobs: [] when the file does not exist, else JSON.parse of its text,
\* trusted to be a JobApplication[]; threw is the SyntaxError of JSON.parse.
loadJobs(f) ==
    IF f.kind = "absent" THEN [threw |-> FALSE, kind |-> "array", items |-> <<>>]
    ELSE IF f.kind = "garbage" THEN [threw |-> TRUE, kind |-> "none", items |-> <<>>]
    ELSE [threw |-> FALSE, kind |-> f.kind, items |-> f.items]

\* ------------------------------------------------------------ the program
\* One printed line: the template literal and the values interpolated in it.
Line(tpl, vals) == [tpl |-> tpl, vals |-> vals]

NameCompany == <<"c", "o", "m", "p", "a", "n", "y">>
NameRole == <<"r", "o", "l", "e">>
NameId == <<"i", "d">>
NameStatus == <<"s", "t", "a", "t", "u", "s">>

\* How one invocation ends: the file it leaves, its exit status, its output.
Exit(f, code, out, err) ==
    [file |-> f, exitCode |-> code, stdout |-> out, stderr |-> err]

\* An exception nobody catches: node prints it on stderr and exits with 1.
Uncaught(f, out, error) == Exit(f, 1, out, <<Line("Uncaught ${error}", <<error>>)>>)

SyntaxError == <<"S", "y", "n", "t", "a", "x", "E", "r", "r", "o", "r">>
TypeError == <<"T", "y", "p", "e", "E", "r", "r", "o", "r">>

\* printHelp: the static usage text, one console.log.
printHelp == <<Line("Job Tracker (TypeScript CLI) ... usage", <<>>)>>

\* Mutant of Missing: the value is not trimmed before the comparison.
MissingNoTrim(value) == value = Undefined \/ value = EmptyStr

\* requireArg's test: typeof value !== "string" || value.trim() === ""
Missing(value) == value = Undefined \/ Trim(value) = EmptyStr

\* requireArg's failure: console.error and process.exit(1), nothing written.
requireArg(f, name) ==
    Exit(f, 1, <<>>, <<Line("Missing required argument: ${name}", <<name>>)>>)

\* jobs.findIndex((j) => j.id === id), 0-based, -1 when no entry matches.
findIndex(items, id) ==
    IF \E i \in DOMAIN items : items[i].id = id
    THEN (CHOOSE i \in DOMAIN items :
              /\ items[i].id = id
              /\ \A h \in 1..(i - 1) : items[h].id # id) - 1
    ELSE -1

\* jobs.filter(j => j.id !== id)
RECURSIVE filter(_, _)
filter(items, id) ==
    IF items = <<>> THEN <<>>
    ELSE IF Head(items).id # id THEN <<Head(items)>> \o filter(Tail(items), id)
    ELSE filter(Tail(items), id)

\* The lines list prints for one entry.
ListEntry(j) ==
    <<Line("- ${j.company} - ${j.role}", <<j.company, j.role>>),
      Line("  id: ${j.id}", <<j.id>>),
      Line("  status: ${j.status}", <<j.status>>),
      Line("  created: ${toLocaleString}", <<toLocaleString(j.createdAt)>>)>>
    \o (IF Falsy(NotesOf(j)) THEN <<>>
        ELSE <<Line("  notes: ${j.notes}", <<NotesOf(j)>>)>>)
    \o <<Line("", <<>>)>>

RECURSIVE ListEntries(_)
ListEntries(items) ==
    IF items = <<>> THEN <<>> ELSE ListEntry(Head(items)) \o ListEntries(Tail(items))

\* Mutant of updated: the new entry is put last.
updatedAppends(newJob, items) == items \o <<newJob>>

\* [newJob, ...jobs]: the new entry first, then the entries loaded.
updated(newJob, items) == <<newJob>> \o items

\* Mutant of assignStatus: the index found is ignored, the first entry changed.
assignStatusFirst(items, idx, newStatusRaw) ==
    [items EXCEPT ![1].status = newStatusRaw]

\* jobs[idx]!.status = newStatusRaw (idx is 0-based).
assignStatus(items, idx, newStatusRaw) ==
    [items EXCEPT ![idx + 1].status = newStatusRaw]

\* main, command add (t, k: what Date.now() and Math.random() return).
AddBranch(f, jobs, args, t, k) ==
    IF Missing(At(args, 0)) THEN requireArg(f, NameCompany)
    ELSE IF Missing(At(args, 1)) THEN requireArg(f, NameRole)
    ELSE
      LET maybeStatus == At(args, 2)
          given == ~Falsy(maybeStatus) /\ isStatus(maybeStatus)
          status == IF given THEN maybeStatus ELSE Saved
          joined == Join(Slice(args, IF given THEN 3 ELSE 2))
          notes == IF joined = EmptyStr THEN Undefined ELSE joined
          newJob == [id |-> makeId(t, k), company |-> At(args, 0),
                     role |-> At(args, 1), status |-> status,
                     createdAt |-> toISOString(t), notes |-> notes]
      IN  IF jobs.kind = "object" THEN Uncaught(f, <<>>, TypeError)
          ELSE Exit(saveJobs(updated(newJob, jobs.items)), 0,
                    <<Line("Added: ${company} - ${role} (${status})",
                           <<newJob.company, newJob.role, newJob.status>>),
                      Line("   id: ${newJob.id}", <<newJob.id>>)>>,
                    <<>>)

\* Mutant of ListBranch: list writes back the collection it loaded.
ListBranchSaves(f, jobs) ==
    LET length == IF jobs.kind = "object" THEN Undefined
                  ELSE Digits(Len(jobs.items))
        header == <<Line("Job Applications (${jobs.length})", <<length>>)>>
    IN  IF length = Digits(0)
        THEN Exit(saveJobs(jobs.items), 0,
                  <<Line("No jobs saved yet. Add one with: ...", <<>>)>>, <<>>)
        ELSE IF jobs.kind = "object" THEN Uncaught(f, header, TypeError)
        ELSE Exit(saveJobs(jobs.items), 0, header \o ListEntries(jobs.items), <<>>)

\* main, command list.
ListBranch(f, jobs) ==
    LET length == IF jobs.kind = "object" THEN Undefined
                  ELSE Digits(Len(jobs.items))
        header == <<Line("Job Applications (${jobs.length})", <<length>>)>>
    IN  IF length = Digits(0)
        THEN Exit(f, 0, <<Line("No jobs saved yet. Add one with: ...", <<>>)>>, <<>>)
        ELSE IF jobs.kind = "object" THEN Uncaught(f, header, TypeError)
        ELSE Exit(f, 0, header \o ListEntries(jobs.items), <<>>)

\* main, command update.
UpdateBranch(f, jobs, args) ==
    IF Missing(At(args, 0)) THEN requireArg(f, NameId)
    ELSE IF Missing(At(args, 1)) THEN requireArg(f, NameStatus)
    ELSE
      LET id == At(args, 0)
          newStatusRaw == At(args, 1)
          idx == findIndex(jobs.items, id)
      IN  IF ~isStatus(newStatusRaw)
          THEN Exit(f, 1, printHelp,
                    <<Line("Invalid status: ${newStatusRaw}", <<newStatusRaw>>)>>)
          ELSE IF jobs.kind # "array" THEN Uncaught(f, <<>>, TypeError)
          ELSE IF idx = -1
          THEN Exit(f, 1, <<>>, <<Line("No job found with id: ${id}", <<id>>)>>)
          ELSE Exit(saveJobs(assignStatus(jobs.items, idx, newStatusRaw)),
                    0,
                    <<Line("Updated ${id} -> ${newStatusRaw}", <<id, newStatusRaw>>)>>,
                    <<>>)

\* Mutant of RemoveBranch: the filtered collection is saved whether or not
\* an entry was removed.
RemoveBranchAlwaysSaves(f, jobs, args) ==
    IF Missing(At(args, 0)) THEN requireArg(f, NameId)
    ELSE
      LET id == At(args, 0)
          filtered == filter(jobs.items, id)
      IN  IF jobs.kind # "array" THEN Uncaught(f, <<>>, TypeError)
          ELSE Exit(saveJobs(filtered), 0, <<Line("Removed ${id}", <<id>>)>>, <<>>)

\* main, command remove.
RemoveBranch(f, jobs, args) ==
    IF Missing(At(args, 0)) THEN requireArg(f, NameId)
    ELSE
      LET id == At(args, 0)
          filtered == filter(jobs.items, id)
      IN  IF jobs.kind # "array" THEN Uncaught(f, <<>>, TypeError)
          ELSE IF Len(filtered) = Len(jobs.items)
          THEN Exit(f, 1, <<>>, <<Line("No job found with id: ${id}", <<id>>)>>)
          ELSE Exit(saveJobs(filtered), 0, <<Line("Removed ${id}", <<id>>)>>, <<>>)

\* main, no branch taken: the message, the help text, and a plain return.
UnknownBranch(f, command) ==
    Exit(f, 0, printHelp, <<Line("Unknown command: ${command}", <<command>>)>>)

\* main: argv is process.argv.slice(2), f the file on disk.
main(a, f, t, k) ==
    LET command == At(a, 0)
        args == Slice(a, 1)
        jobs == loadJobs(f)
    IN  IF jobs.threw THEN Uncaught(f, <<>>, SyntaxError)
        ELSE IF Falsy(command) \/ command = CmdHelp THEN Exit(f, 0, printHelp, <<>>)
        ELSE IF command = CmdAdd THEN AddBranch(f, jobs, args, t, k)
        ELSE IF command = CmdList THEN ListBranch(f, jobs)
        ELSE IF command = CmdUpdate THEN UpdateBranch(f, jobs, args)
        ELSE IF command = CmdRemove THEN RemoveBranch(f, jobs, args)
        ELSE UnknownBranch(f, command)

\* ------------------------------------------------------- the state machine
VARIABLES
    file,       \* jobs.json on disk
    now,        \* the clock Date.now() reads, in milliseconds
    argv,       \* process.argv.slice(2) of the latest invocation
    raw,        \* what the latest invocation found on disk when it started
    exitCode,   \* its exit status
    stdout,     \* what it printed with console.log
    stderr      \* what it printed with console.error, or the uncaught error

vars == <<file, now, argv, raw, exitCode, stdout, stderr>>

\* What the user may type.
Acme == <<"A", "c", "m", "e">>
Engineer == <<"E", "n", "g">>
SavedCapital == <<"S", "a", "v", "e", "d">>
Referral == <<"r", "e", "f">>
CmdRm == <<"r", "m">>

\* What Math.random() may return, in sixteenths: 0 and 0.5.
RandomValues == {0, 8}

\* An id no entry has: the clock starts at 1.
GhostId == makeId(0, 0)

\* The ids the user may type: those in the file, one that is in no file, and
\* a blank.
TypedIds == {file.items[i].id : i \in DOMAIN file.items} \cup {GhostId, Blank}

\* add with a company and a role: no third token, a status and notes, a
\* word that is no status and notes, an empty third token.
AddArgs ==
    {<<Acme, Engineer>>,
     <<Acme, Engineer, Offer, SavedCapital, Referral>>,
     <<Acme, Engineer, SavedCapital, Referral>>,
     <<Acme, Engineer, EmptyStr>>}

\* add without a company or a role, or with a blank one.
AddArgsRejected == {<<>>, <<Blank, Engineer>>, <<Acme>>, <<Acme, EmptyStr, Offer>>}

UpdateArgs ==
    {<<id, Saved>> : id \in TypedIds}
    \cup {<<id>> : id \in TypedIds \ {GhostId, Blank}}
    \cup {<<>>, <<GhostId, Blank>>, <<GhostId, SavedCapital>>}

RemoveArgs == {<<id>> : id \in TypedIds} \cup {<<>>}

HelpArgv == {<<>>, <<CmdHelp>>, <<EmptyStr>>}

ListArgv == {<<CmdList>>}

UnknownArgv == {<<CmdRm>>, <<SavedCapital, Acme>>}

\* One invocation of the program: main runs to its end.
Invoke(a, k) ==
    LET r == main(a, file, now, k)
    IN  /\ raw' = file
        /\ file' = r.file
        /\ argv' = a
        /\ exitCode' = r.exitCode
        /\ stdout' = r.stdout
        /\ stderr' = r.stderr
        /\ UNCHANGED now

Help ==
    /\ \E a \in HelpArgv : Invoke(a, 0)

Add ==
    /\ \E args \in AddArgs \cup AddArgsRejected, k \in RandomValues :
         /\ args \in AddArgs => Len(file.items) < MaxJobs
         /\ Invoke(<<CmdAdd>> \o args, k)

List ==
    /\ \E a \in ListArgv : Invoke(a, 0)

Update ==
    /\ \E args \in UpdateArgs : Invoke(<<CmdUpdate>> \o args, 0)

Remove ==
    /\ \E args \in RemoveArgs : Invoke(<<CmdRemove>> \o args, 0)

Unknown ==
    /\ \E a \in UnknownArgv : Invoke(a, 0)

\* Time passes between two invocations.
Tick ==
    /\ now < MaxClock
    /\ now' = now + 1
    /\ UNCHANGED <<file, argv, raw, exitCode, stdout, stderr>>

Next == Add \/ List \/ Update \/ Remove \/ Help \/ Unknown \/ Tick

\* The state a first invocation without a command leaves, the file being f.
InitWith(f) ==
    LET r == main(<<>>, f, 1, 0)
    IN  /\ file = f
        /\ now = 1
        /\ argv = <<>>
        /\ raw = f
        /\ exitCode = r.exitCode
        /\ stdout = r.stdout
        /\ stderr = r.stderr

\* A fresh directory: no jobs.json.
Init == InitWith(FileAbsent)

Spec == Init /\ [][Next]_vars

\* Somebody else writes jobs.json: a text that does not parse, the JSON
\* string "", or the JSON object {}.
ForeignWrite ==
    /\ file' \in {FileGarbage, FileEmptyString, FileObject}
    /\ file' # file
    /\ UNCHANGED <<now, argv, raw, exitCode, stdout, stderr>>

NextForeign == Next \/ ForeignWrite

SpecForeign == Init /\ [][NextForeign]_vars

\* ------------------------------------------------------------- the claims
\* The file holds a collection: it is absent or a JSON array of entries.
ValidStore(f) == f.kind \in {"absent", "array"}

\* The ids of the entries of a store.
IdsOf(f) == {f.items[i].id : i \in DOMAIN f.items}

\* The command word and the positional arguments of the latest invocation.
Command == At(argv, 0)
Arg(i) == At(argv, i + 1)

\* A positional argument that is absent or blank, stated on the characters.
AbsentOrBlank(v) == v = Undefined \/ \A i \in DOMAIN v : v[i] = " "

KnownCommands == {CmdAdd, CmdList, CmdUpdate, CmdRemove, CmdHelp}

EnumWords ==
    {<<"s", "a", "v", "e", "d">>,
     <<"a", "p", "p", "l", "i", "e", "d">>,
     <<"i", "n", "t", "e", "r", "v", "i", "e", "w">>,
     <<"o", "f", "f", "e", "r">>,
     <<"r", "e", "j", "e", "c", "t", "e", "d">>}

NoJobFound(id) == <<Line("No job found with id: ${id}", <<id>>)>>

MissingArgument(name) == <<Line("Missing required argument: ${name}", <<name>>)>>

\* C1: an invocation whose first token is a word other than add, list,
\* update, remove, help prints an error indicator and the usage help, ends
\* with a non-zero exit status and leaves the store unchanged.
C1_UnknownCommandFails ==
    (ValidStore(raw) /\ ~Falsy(Command) /\ Command \notin KnownCommands)
        => /\ stderr # <<>>
           /\ stdout = printHelp
           /\ exitCode # 0
           /\ file = raw

\* C5: in every reachable store no two entries share an id.
C5_IdsUnique ==
    \A i, j \in DOMAIN file.items :
        i # j => file.items[i].id # file.items[j].id

\* The latest invocation was `update X S`, X not blank and S a valid status.
IsUpdate ==
    /\ Command = CmdUpdate
    /\ ~AbsentOrBlank(Arg(0))
    /\ Arg(1) \in EnumWords

\* The latest invocation was `remove X`, X not blank.
IsRemove == Command = CmdRemove /\ ~AbsentOrBlank(Arg(0))

\* The latest invocation was an add with a company and a role, neither blank.
IsAdd ==
    /\ Command = CmdAdd
    /\ ~AbsentOrBlank(Arg(0))
    /\ ~AbsentOrBlank(Arg(1))

\* C2: in a store none of whose entries has the id X, `update X <valid
\* status>` and `remove X` report `No job found with id: X`, exit non-zero
\* and write nothing: the file after the command is the file before it.
C2_NotFoundWritesNothing ==
    (ValidStore(raw) /\ (IsUpdate \/ IsRemove) /\ Arg(0) \notin IdsOf(raw))
        => /\ stderr = NoJobFound(Arg(0))
           /\ exitCode # 0
           /\ file = raw

C2_Witness ==
    /\ IsUpdate
    /\ raw.items # <<>>
    /\ Arg(0) \notin IdsOf(raw)
    /\ stderr = NoJobFound(Arg(0))

\* C3: in a collection with an entry of id X, `update X S` (S valid) changes
\* the status of one entry of id X to S and nothing else: same length and
\* order, every other entry identical, and that entry's id, company, role,
\* createdAt and notes identical; the result is what the file holds.
C3_UpdateChangesStatusOnly ==
    (ValidStore(raw) /\ IsUpdate /\ Arg(0) \in IdsOf(raw))
        => /\ exitCode = 0
           /\ file.kind = "array"
           /\ Len(file.items) = Len(raw.items)
           /\ \E i \in DOMAIN raw.items :
                /\ raw.items[i].id = Arg(0)
                /\ file.items[i].status = Arg(1)
                /\ file.items[i].id = raw.items[i].id
                /\ file.items[i].company = raw.items[i].company
                /\ file.items[i].role = raw.items[i].role
                /\ file.items[i].createdAt = raw.items[i].createdAt
                /\ HasNotes(file.items[i]) = HasNotes(raw.items[i])
                /\ NotesOf(file.items[i]) = NotesOf(raw.items[i])
                /\ \A h \in DOMAIN raw.items :
                     h # i => file.items[h] = raw.items[h]

C3_Witness ==
    /\ IsUpdate
    /\ Len(raw.items) = 2
    /\ raw.items[2].id = Arg(0)
    /\ raw.items[1].id # Arg(0)
    /\ HasNotes(raw.items[2])
    /\ raw.items[2].status # Arg(1)
    /\ file.items[2].status = Arg(1)
    /\ exitCode = 0

\* The entries of items whose id is not id, in their order.
RECURSIVE Without(_, _)
Without(items, id) ==
    IF items = <<>> THEN <<>>
    ELSE (IF Head(items).id = id THEN <<>> ELSE <<Head(items)>>)
         \o Without(Tail(items), id)

\* C4: in every store reachable from the empty one, `remove X` makes the
\* collection exactly one entry shorter when an entry has the id X, the
\* remaining entries unchanged and in their order; when none has it, the
\* size is unchanged and the exit status non-zero.
C4_RemoveTakesOne ==
    (ValidStore(raw) /\ IsRemove)
        => IF Arg(0) \in IdsOf(raw)
           THEN /\ Len(file.items) = Len(raw.items) - 1
                /\ file.items = Without(raw.items, Arg(0))
           ELSE /\ Len(file.items) = Len(raw.items)
                /\ exitCode # 0

\* The tokens an add takes the notes from: those after a valid status, or
\* the third token and all that follow when it is no valid status.
NotesTokens ==
    IF Arg(2) \in EnumWords THEN Slice(argv, 4) ELSE Slice(argv, 3)

\* C6: the entry an add creates has the status t3 when t3 is exactly one of
\* the five words and `saved` otherwise (t3 absent included); its notes is
\* the single-space join of the tokens after the status, or of t3 and the
\* following tokens when t3 is no status; an empty join leaves notes unset.
C6_AddStatusAndNotes ==
    (ValidStore(raw) /\ IsAdd)
        => /\ file.kind = "array" /\ file.items # <<>>
           /\ file.items[1].status =
                (IF Arg(2) \in EnumWords THEN Arg(2) ELSE <<"s", "a", "v", "e", "d">>)
           /\ IF Join(NotesTokens) = <<>>
              THEN ~HasNotes(file.items[1])
              ELSE /\ HasNotes(file.items[1])
                   /\ file.items[1].notes = Join(NotesTokens)

C6_Witness ==
    /\ IsAdd
    /\ Arg(2) = SavedCapital
    /\ Len(argv) = 5
    /\ file.items[1].status = Saved
    /\ file.items[1].notes = SavedCapital \o <<" ">> \o Arg(3)

\* C7: an add with a company and a role, neither blank, leaves the new entry
\* followed by the previous collection: one entry more, the new one first,
\* the earlier ones unchanged and in their order; an add whose company and
\* role equal those of an existing entry is accepted like any other.
C7_AddPrepends ==
    (ValidStore(raw) /\ IsAdd)
        => /\ exitCode = 0
           /\ file.kind = "array"
           /\ Len(file.items) = Len(raw.items) + 1
           /\ Tail(file.items) = raw.items
           /\ file.items[1].company = Arg(0)
           /\ file.items[1].role = Arg(1)
           /\ stdout[2].vals = <<file.items[1].id>>

C7_Witness ==
    /\ IsAdd
    /\ exitCode = 0
    /\ Len(file.items) = 2
    /\ file.items[1].company = file.items[2].company
    /\ file.items[1].role = file.items[2].role
    /\ file.items[1] # file.items[2]
    /\ Tail(file.items) = raw.items

\* The first required argument of the latest invocation that is absent or
\* blank, or undefined when there is none.
FirstMissing ==
    IF Command = CmdAdd
    THEN (IF AbsentOrBlank(Arg(0)) THEN NameCompany
          ELSE IF AbsentOrBlank(Arg(1)) THEN NameRole ELSE Undefined)
    ELSE IF Command = CmdUpdate
    THEN (IF AbsentOrBlank(Arg(0)) THEN NameId
          ELSE IF AbsentOrBlank(Arg(1)) THEN NameStatus ELSE Undefined)
    ELSE IF Command = CmdRemove
    THEN (IF AbsentOrBlank(Arg(0)) THEN NameId ELSE Undefined)
    ELSE Undefined

\* C8: when a required argument (company or role of add, id or status of
\* update, id of remove) is absent or blank, the invocation fails with
\* `Missing required argument: <name>` and a non-zero exit status, and
\* the file is as it was.
C8_MissingArgumentRejected ==
    (ValidStore(raw) /\ FirstMissing # Undefined)
        => /\ stderr = MissingArgument(FirstMissing)
           /\ exitCode # 0
           /\ file = raw

C8_Witness ==
    /\ Command = CmdUpdate
    /\ Len(argv) = 2
    /\ Arg(0) \in IdsOf(raw)
    /\ stderr = MissingArgument(NameStatus)
    /\ file = raw

\* C9: when jobs.json exists and does not hold a collection (a text that
\* does not parse, or a JSON value that is no array, such as "" or {}), every
\* command fails with a reported error and a non-zero exit status, and the
\* file is not overwritten.
C9_CorruptStoreIsFatal ==
    (raw.kind \in {"garbage", "string", "object"})
        => /\ exitCode # 0
           /\ stderr # <<>>
           /\ file = raw

\* The latest invocation was list, help, or had no command.
IsReadOnly == Falsy(Command) \/ Command \in {CmdHelp, CmdList}

NoJobsMessage == <<Line("No jobs saved yet. Add one with: ...", <<>>)>>

\* C10: list, help and an invocation with no command never write the file
\* and, the store being a collection, exit with 0; list without a file
\* prints the no-jobs message and creates no file; a list right after a
\* list prints the same output.
C10_ReadOnly ==
    /\ [](IsReadOnly =>
            /\ file = raw
            /\ ValidStore(raw) => exitCode = 0
            /\ (Command = CmdList /\ raw = FileAbsent)
                 => (stdout = NoJobsMessage /\ file = FileAbsent))
    /\ [][(Command = CmdList /\ Command' = CmdList) => stdout' = stdout]_vars

C10_Witness ==
    /\ Command = CmdList
    /\ Len(raw.items) = 2
    /\ exitCode = 0
    /\ Len(stdout) > 2
    /\ file = raw

====
